---------------------------- MODULE Spec2Model ----------------------------
(***************************************************************************)
(* A model of Localkit (src/src/localkit.js): the project registry and its *)
(* file watchers, the pairing-key store, the beacon transmitter and the    *)
(* traversal guard of readProjectFile.                                     *)
(*                                                                         *)
(* Node runs every callback to completion, so each action below is one     *)
(* synchronous stretch of code: a public method up to its return, or one   *)
(* callback of a collaborator (identity resolution, fs, timer).            *)
(***************************************************************************)
EXTENDS Integers, Sequences, FiniteSets, TLC

(***************************************************************************)
(* Bounds and inputs.                                                      *)
(***************************************************************************)
\* Number of public registry calls whose promise the caller still holds.
MaxCalls == 2

\* Number of clearPairing calls whose write has not called back.
MaxWrites == 2

\* Number of interval timers armed at a time.
MaxTimers == 3

\* Length of the file paths a client asks readProjectFile for.
MaxPathLen == 5

\* Number of beacon ticks whose sockets are open at a time.
MaxOpenTicks == 1

\* Number of directories above a file of a project.
MaxDepth == 2

\* Project directories the caller may name; only those in WithWww have a
\* "www" subdirectory on disk.
Paths == {"/a", "/ab", "/n"}
WithWww == {"/a", "/ab"}

\* Argument lists offered to setProjects.
PathLists == { <<>>, <<"/a">>, <<"/a", "/ab">>, <<"/ab", "/n">> }

VARIABLES
  projects,     \* this.projects: project id -> [path, fileWatcher]
  watchers,     \* the FileWatcher objects alive: index -> [running, cb]
  isWatching,   \* this._isWatching
  calls,        \* the public registry calls with a callback still to run
  ret,          \* what the step just taken returned or settled
  pairingKeys,  \* this.pairingKeys: client id hash -> pairing key
  keysFile,     \* the file PAIRING_KEYS_FILE on disk
  load,         \* the load of the pairing keys begun by the constructor
  writes,       \* the fs.writeFile calls of clearPairing in flight
  clearCalled,  \* whether clearPairing has been called
  loggedIn,     \* this.monaca._loggedIn
  server,       \* this.server: "none", or an http.Server "idle" or "bound"
  httpOp,       \* the listen or close of the server under way
  httpServerRunning,
  interval,     \* this._interval: a timer, or NoTimer for undefined
  timers,       \* the interval timers that are armed
  beaconTransmitterRunning,
  rd,           \* the readProjectFile or getProjectFiles call under way
  projectEvents, \* this.projectEvents: "none" for undefined, or "made"
  sockets,      \* the UDP sockets of the beacon that have not been closed
  crashed       \* whether an exception nobody caught has ended the process

regVars == <<projects, watchers, isWatching, calls>>
pairVars == <<pairingKeys, keysFile, load, writes, clearCalled>>
beaconVars ==
  <<loggedIn, server, httpOp, httpServerRunning, interval, timers,
    beaconTransmitterRunning>>
netVars == <<projectEvents, sockets, crashed>>
vars == <<regVars, ret, pairVars, beaconVars, rd, netVars>>

(***************************************************************************)
(* Collaborators.                                                          *)
(***************************************************************************)
\* monaca.getLocalProjectId: a stable id per path (the call itself may fail,
\* which the callers' error callbacks model).
ProjectIdOf(p) ==
  CASE p = "/a" -> "idA"
    [] p = "/ab" -> "idAB"
    [] OTHER -> "idN"

\* A file system where every directory has a www: what addProject would be
\* without its existsSync test.
AnyDirectory(p) == TRUE

\* fs.existsSync(path.join(projectPath, 'www'))
HasWww(p) == p \in WithWww

\* path.join(project.path, 'www')
WwwDir(p) == <<p, "www">>

Range(s) == { s[i] : i \in 1..Len(s) }

(***************************************************************************)
(* Calls in flight.                                                        *)
(*                                                                         *)
(* calls is the bag of the registry calls that still have a callback to    *)
(* run. A call is a record; a setProjects call carries the addProject and  *)
(* removeProject calls it made that have not returned yet (subs), what     *)
(* Q.all made of those that have (promise, hung), and whether any other    *)
(* call was in flight during its life (alone).                             *)
(***************************************************************************)
NoSubs == <<>>

\* A call that has just been made: its identity resolution is in flight.
NewCall(o, p, l, a) ==
  [op |-> o, path |-> p, list |-> l, pc |-> "idwait",
   promise |-> "pending", hung |-> FALSE, alone |-> a, subs |-> NoSubs]

\* addProject / removeProject called from inside setProjects.
NewSub(o, p) == [op |-> o, path |-> p]

\* Bags of calls: a function from the calls present to their number.
NoCalls == [x \in {} |-> 0]

Put(b, x) ==
  IF x \in DOMAIN b
  THEN [b EXCEPT ![x] = @ + 1]
  ELSE [y \in DOMAIN b \cup {x} |-> IF y = x THEN 1 ELSE b[y]]

Take(b, x) ==
  IF b[x] > 1
  THEN [b EXCEPT ![x] = @ - 1]
  ELSE [y \in DOMAIN b \ {x} |-> b[y]]

RECURSIVE Size(_)
Size(b) ==
  IF DOMAIN b = {} THEN 0
  ELSE LET x == CHOOSE y \in DOMAIN b : TRUE
       IN b[x] + Size([y \in DOMAIN b \ {x} |-> b[y]])

\* The i-th call of rec: rec itself (0) or one of the calls it made.
IsPart(rec, i) == i \in 0..Len(rec.subs)

Part(rec, i) == IF i = 0 THEN rec ELSE rec.subs[i]

\* Part i of rec is a call of kind o whose identity resolution is in flight.
Resolving(rec, i, o) ==
  /\ Part(rec, i).op = o
  /\ i = 0 => rec.pc = "idwait"

Drop(s, i) == [k \in 1..(Len(s) - 1) |-> IF k < i THEN s[k] ELSE s[k + 1]]

\* Q.all over a batch, after one of its promises ended as prom ("pending":
\* its callback returned without settling it) with rest still in flight:
\* rejected with the first rejection, fulfilled once all are, and otherwise
\* pending, for ever ("never") when nothing is left that could settle it.
AllOf(rec, prom, rest) ==
  IF rec.promise # "pending" THEN "settled"
  ELSE IF prom = "rejected" THEN "rejected"
  ELSE IF rest # <<>> THEN "pending"
  ELSE IF prom = "fulfilled" /\ ~rec.hung THEN "fulfilled"
  ELSE "never"

\* The calls after part i of rec has returned from its callback with its
\* promise prom. A call whose last callback has run leaves the bag.
Settle(cs, rec, i, prom) ==
  IF i = 0 \/ Len(rec.subs) = 1
  THEN Take(cs, rec)
  ELSE Put(Take(cs, rec),
           [rec EXCEPT
              !.subs = Drop(rec.subs, i),
              !.hung = rec.hung \/ prom = "pending",
              !.promise = IF AllOf(rec, prom, Drop(rec.subs, i)) = "rejected"
                          THEN "rejected" ELSE rec.promise])

\* What a step reports: the promise it settled or the value it returned
\* (op, path, status, value, dirs), what it logged, what became of the
\* setProjects promise it belongs to (all), whether the project was in the
\* registry when it began (found), the paths whose identity resolution
\* failed (failed), whether its call had been alone in flight, what the
\* step before it had reported (after), and the files a collaborator had
\* enumerated for it (given).
NoRet ==
  [op |-> "none", path |-> "", status |-> "none", value |-> "none",
   all |-> "none", dirs |-> {}, logged |-> {}, found |-> FALSE,
   failed |-> {}, alone |-> FALSE, after |-> <<"none", "none">>,
   given |-> {}]

\* Part i of rec returned from its callback with its promise prom and value
\* val; all is what became of the setProjects promise it belongs to.
Settled(rec, i, prom, val) ==
  [NoRet EXCEPT !.op = Part(rec, i).op, !.path = Part(rec, i).path,
                !.status = prom, !.value = val,
                !.found = ProjectIdOf(Part(rec, i).path) \in DOMAIN projects,
                !.alone = rec.alone,
                !.all = IF i = 0 THEN "none"
                        ELSE AllOf(rec, prom, Drop(rec.subs, i))]

\* Making a new call ends the solitude of the calls in flight.
RECURSIVE Joined(_)
Joined(cs) ==
  IF DOMAIN cs = {} THEN cs
  ELSE LET x == CHOOSE y \in DOMAIN cs : TRUE
           rest == Joined([y \in DOMAIN cs \ {x} |-> cs[y]])
           z == [x EXCEPT !.alone = FALSE]
       IN [y \in DOMAIN rest \cup {z} |->
             IF y = z
             THEN cs[x] + (IF z \in DOMAIN rest THEN rest[z] ELSE 0)
             ELSE rest[y]]

\* A call is made, when fewer than limit calls are unfinished.
Call(o, p, l, limit) ==
  /\ Size(calls) < limit
  /\ calls' = Put(Joined(calls), NewCall(o, p, l, DOMAIN calls = {}))

(***************************************************************************)
(* File watchers.                                                          *)
(***************************************************************************)
\* new FileWatcher() in addProject for project id: the next object.
NewWatcher(ws, id) ==
  LET n == CHOOSE i \in 1..(Cardinality(DOMAIN ws) + 1) :
             /\ <<id, i>> \notin DOMAIN ws
             /\ \A j \in 1..(i - 1) : <<id, j>> \in DOMAIN ws
  IN <<id, n>>

\* The watchers that still matter: those a project holds and those running.
Collect(ws, ps) ==
  [i \in { j \in DOMAIN ws :
             ws[j].running \/ \E id \in DOMAIN ps : ps[id].fileWatcher = j }
     |-> ws[i]]

Without(ps, id) == [k \in DOMAIN ps \ {id} |-> ps[k]]

With(ps, id, e) == [k \in DOMAIN ps \cup {id} |-> IF k = id THEN e ELSE ps[k]]

Empty == [k \in {} |-> 0]

NoTimer == 0

(***************************************************************************)
(* The pairing keys and their file.                                        *)
(***************************************************************************)
Clients == {"c1", "c2"}
PairingKey == "k"

NoKeys == [c \in {} |-> PairingKey]

\* The maps from client id hashes to pairing keys.
KeyMaps == UNION { [S -> {PairingKey}] : S \in SUBSET Clients }

\* The file: missing, or holding the text of a JSON object (a sequence of
\* <<name, value>> members), or holding something that is not JSON.
Absent == [kind |-> "absent", text |-> <<>>]
Garbage == [kind |-> "garbage", text |-> <<>>]
Json(t) == [kind |-> "json", text |-> t]

\* JSON.stringify of a map of strings: its members, one after the other.
RECURSIVE Stringify(_)
Stringify(m) ==
  IF DOMAIN m = {} THEN <<>>
  ELSE LET c == CHOOSE d \in DOMAIN m : TRUE
       IN <<<<c, m[c]>>>> \o Stringify([d \in DOMAIN m \ {c} |-> m[d]])

\* JSON.parse of the text of an object: a later member overrides an earlier
\* one of the same name.
Parse(t) ==
  [c \in { t[i][1] : i \in 1..Len(t) } |->
     LET last == CHOOSE i \in 1..Len(t) :
                   /\ t[i][1] = c
                   /\ \A j \in (i + 1)..Len(t) : t[j][1] # c
     IN t[last][2]]

\* What the file may hold when the object is made.
FilesOnDisk == {Absent, Garbage} \cup { Json(Stringify(m)) : m \in KeyMaps }

(***************************************************************************)
(* Construction.                                                           *)
(***************************************************************************)
\* this.projects = {}; this._isWatching = false
InitRegistry ==
  /\ projects = Empty
  /\ watchers = Empty
  /\ isWatching = FALSE
  /\ calls = NoCalls

\* this.pairingKeys = {}; fs.exists(PAIRING_KEYS_FILE, ...) is under way.
\* onDisk: what the file holds when the object is made.
InitPairing(onDisk) ==
  /\ pairingKeys = NoKeys
  /\ keysFile = onDisk
  /\ load = [pc |-> "exists", err |-> FALSE, data |-> Absent]
  /\ writes = <<>>
  /\ clearCalled = FALSE

\* beaconTransmitterRunning = false; httpServerRunning = false; no server,
\* no timer.
InitBeacon(logged) ==
  /\ loggedIn = logged
  /\ server = "none"
  /\ httpOp = "none"
  /\ httpServerRunning = FALSE
  /\ interval = NoTimer
  /\ timers = {}
  /\ beaconTransmitterRunning = FALSE
  /\ projectEvents = "none"
  /\ sockets = {}
  /\ crashed = FALSE

NoRead == [pc |-> "none", id |-> "", arg |-> <<>>, file |-> <<>>]

Init ==
  /\ InitRegistry
  /\ InitPairing(Absent)
  /\ InitBeacon(FALSE)
  /\ rd = NoRead
  /\ ret = NoRet

(***************************************************************************)
(* addProject                                                              *)
(***************************************************************************)
\* A registry that never finds a project: what addProject would be without
\* its hasOwnProperty test.
NeverAdded(ps, id) == FALSE

\* this.projects.hasOwnProperty(projectId)
AlreadyAdded(ps, id) == id \in DOMAIN ps

\* The entry stored for a new project.
NewEntry(p, w) == [fileWatcher |-> w, path |-> p]

CallAddProject(p, limit) ==
  /\ Call("add", p, <<>>, limit)
  /\ ret' = NoRet
  /\ UNCHANGED <<projects, watchers, isWatching>>

\* The success callback of getLocalProjectId.
AddProjectResolved(rec, i) ==
  /\ Resolving(rec, i, "add")
  /\ LET p == Part(rec, i).path
         id == ProjectIdOf(p)
         w == NewWatcher(watchers, id)
     IN IF ~HasWww(p)
        THEN /\ calls' = Settle(calls, rec, i, "rejected")
             /\ ret' = Settled(rec, i, "rejected", "nowww")
             /\ UNCHANGED <<projects, watchers>>
        ELSE IF AlreadyAdded(projects, id)
        THEN /\ calls' = Settle(calls, rec, i, "fulfilled")
             /\ ret' = Settled(rec, i, "fulfilled", id)
             /\ UNCHANGED <<projects, watchers>>
        ELSE \* fileWatcher.run is called only if isWatching(), and may throw
             \E ran \in (IF isWatching THEN BOOLEAN ELSE {TRUE}) :
               IF ran
               THEN /\ watchers' =
                         With(watchers, w, [running |-> isWatching, cb |-> id])
                    /\ projects' = With(projects, id, NewEntry(p, w))
                    /\ calls' = Settle(calls, rec, i, "fulfilled")
                    /\ ret' = Settled(rec, i, "fulfilled", id)
               ELSE /\ calls' = Settle(calls, rec, i, "rejected")
                    /\ ret' = Settled(rec, i, "rejected", "runerr")
                    /\ UNCHANGED <<projects, watchers>>
  /\ UNCHANGED isWatching

\* The error callback of getLocalProjectId.
AddProjectIdFailed(rec, i) ==
  /\ Resolving(rec, i, "add")
  /\ calls' = Settle(calls, rec, i, "rejected")
  /\ ret' = Settled(rec, i, "rejected", "iderr")
  /\ UNCHANGED <<projects, watchers, isWatching>>

(***************************************************************************)
(* removeProject                                                           *)
(***************************************************************************)
\* The registry if removeProject deleted the entry whatever stop() did.
StopIgnored(ps, id, stopped) == [k \in DOMAIN ps \ {id} |-> ps[k]]

\* The registry after project.fileWatcher.stop() returned (stopped) or threw.
AfterStop(ps, id, stopped) == IF stopped THEN Without(ps, id) ELSE ps

CallRemoveProject(p, limit) ==
  /\ Call("remove", p, <<>>, limit)
  /\ ret' = NoRet
  /\ UNCHANGED <<projects, watchers, isWatching>>

\* The success callback of getLocalProjectId.
RemoveProjectResolved(rec, i) ==
  /\ Resolving(rec, i, "remove")
  /\ LET id == ProjectIdOf(Part(rec, i).path)
     IN IF id \in DOMAIN projects
        THEN \E stopped \in BOOLEAN :
               LET w == projects[id].fileWatcher
                   ws == IF stopped
                         THEN [watchers EXCEPT ![w].running = FALSE]
                         ELSE watchers
                   ps == AfterStop(projects, id, stopped)
               IN /\ projects' = ps
                  /\ watchers' = Collect(ws, ps)
                  /\ IF stopped
                     THEN /\ calls' = Settle(calls, rec, i, "fulfilled")
                          /\ ret' = Settled(rec, i, "fulfilled", id)
                     ELSE /\ calls' = Settle(calls, rec, i, "rejected")
                          /\ ret' = Settled(rec, i, "rejected", "stoperr")
        ELSE \* no else branch: the deferred is never settled
             /\ calls' = Settle(calls, rec, i, "pending")
             /\ ret' = Settled(rec, i, "pending", "none")
             /\ UNCHANGED <<projects, watchers>>
  /\ UNCHANGED isWatching

\* The error callback of getLocalProjectId.
RemoveProjectIdFailed(rec, i) ==
  /\ Resolving(rec, i, "remove")
  /\ calls' = Settle(calls, rec, i, "rejected")
  /\ ret' = Settled(rec, i, "rejected", "iderr")
  /\ UNCHANGED <<projects, watchers, isWatching>>

(***************************************************************************)
(* setProjects                                                             *)
(***************************************************************************)
\* The listed paths addProject is called for, in list order.
ToAdd(ps, list) ==
  SelectSeq(list, LAMBDA p : ~(ProjectIdOf(p) \in DOMAIN ps))

\* A setProjects that only adds.
NothingToRemove(ps, list) == {}

\* The registered projects removeProject is called for.
ToRemove(ps, list) ==
  { id \in DOMAIN ps : ps[id].path \notin Range(list) }

\* A set of project ids as the for-in loop visits them.
RECURSIVE InOrder(_)
InOrder(S) ==
  IF S = {} THEN <<>>
  ELSE LET x == CHOOSE y \in S : TRUE IN <<x>> \o InOrder(S \ {x})

\* The calls setProjects makes once every listed path has an id.
Batch(ps, list) ==
  LET adds == ToAdd(ps, list)
      rems == InOrder(ToRemove(ps, list))
  IN [i \in 1..Len(adds) |-> NewSub("add", adds[i])] \o
     [i \in 1..Len(rems) |-> NewSub("remove", ps[rems[i]].path)]

CallSetProjects(list, limit) ==
  /\ Call("set", "", list, limit)
  /\ ret' = NoRet
  /\ UNCHANGED <<projects, watchers, isWatching>>

\* getProjects resolved: every getLocalProjectId of the list succeeded.
SetProjectsResolved(rec) ==
  /\ Resolving(rec, 0, "set")
  /\ LET subs == Batch(projects, rec.list)
     IN IF subs = <<>>
        THEN \* Q.all([]) is fulfilled
             /\ calls' = Take(calls, rec)
             /\ ret' = [NoRet EXCEPT !.op = "set", !.status = "fulfilled",
                                     !.all = "fulfilled",
                                     !.alone = rec.alone]
        ELSE /\ calls' = Put(Take(calls, rec),
                             [rec EXCEPT !.pc = "batch", !.subs = subs])
             /\ ret' = [NoRet EXCEPT !.op = "set", !.status = "pending"]
  /\ UNCHANGED <<projects, watchers, isWatching>>

\* getProjects rejected: some getLocalProjectId of the list failed.
SetProjectsIdFailed(rec) ==
  /\ Resolving(rec, 0, "set")
  /\ calls' = Take(calls, rec)
  /\ \E failed \in SUBSET Range(rec.list) \ {{}} :
       ret' = [NoRet EXCEPT !.op = "set", !.status = "rejected",
                            !.value = "iderr", !.failed = failed,
                            !.alone = rec.alone]
  /\ UNCHANGED <<projects, watchers, isWatching>>

(***************************************************************************)
(* The watch operations, which run to their return without waiting.        *)
(* seen: whether the caller of this step is the one whose results ret      *)
(* records.                                                                *)
(***************************************************************************)
Running(ps, ws, id) == ws[ps[id].fileWatcher].running

\* A registry where no watcher is ever found idle.
NoneIdle(ps, ws) == {}

IdleIds(ps, ws) == { id \in DOMAIN ps : ~Running(ps, ws, id) }

RunningIds(ps, ws) == { id \in DOMAIN ps : Running(ps, ws, id) }

\* The watchers with those of the projects in ids set to run (or not).
SetRunning(ps, ws, ids, b) ==
  [w \in DOMAIN ws |->
     IF \E id \in ids : ps[id].fileWatcher = w
     THEN [ws[w] EXCEPT !.running = b]
     ELSE ws[w]]

WwwDirs(ps, ids) == { WwwDir(ps[id].path) : id \in ids }

Seen(seen, r) == IF seen THEN r ELSE NoRet

\* paths, had startWatch pushed each directory before running its watcher.
AllIdlePaths(ps, idle, failed) == WwwDirs(ps, idle)

\* paths: the directories pushed by startWatch, given the watchers that were
\* idle and those among them whose run() threw.
StartWatchPaths(ps, idle, failed) == WwwDirs(ps, idle \ failed)

\* The promise startWatch returns.
StartWatchReturn(ps, idle, failed) ==
  [NoRet EXCEPT !.op = "startWatch", !.status = "fulfilled",
                !.dirs = StartWatchPaths(ps, idle, failed),
                !.logged = WwwDirs(ps, failed)]

\* A startWatch that raised the flag.
WatchFlagRaised == TRUE

\* this._isWatching = false, the last statement of startWatch.
WatchFlagAfterStart == FALSE

StartWatch(seen) ==
  /\ \E failed \in SUBSET IdleIds(projects, watchers) :
       LET idle == IdleIds(projects, watchers)
       IN /\ watchers' = SetRunning(projects, watchers, idle \ failed, TRUE)
          /\ ret' = Seen(seen, [StartWatchReturn(projects, idle, failed)
                                  EXCEPT !.after = <<ret.op, ret.status>>])
  /\ isWatching' = WatchFlagAfterStart
  /\ UNCHANGED <<projects, calls>>

\* The promise stopWatch returns.
StopWatchReturn(ps, running, failed) ==
  IF failed = {}
  THEN [NoRet EXCEPT !.op = "stopWatch", !.status = "fulfilled",
                     !.dirs = { ps[id].path : id \in running }]
  ELSE [NoRet EXCEPT !.op = "stopWatch", !.status = "rejected",
                     !.value = "stoperr"]

StopWatch(seen) ==
  /\ \E failed \in SUBSET RunningIds(projects, watchers) :
       LET running == RunningIds(projects, watchers)
       IN /\ watchers' = SetRunning(projects, watchers, running \ failed, FALSE)
          /\ ret' = Seen(seen, StopWatchReturn(projects, running, failed))
          /\ isWatching' = IF failed = {} THEN FALSE ELSE isWatching
  /\ UNCHANGED <<projects, calls>>

\* isWatching()
IsWatching(seen) ==
  /\ ret' = Seen(seen, [NoRet EXCEPT !.op = "isWatching",
                                     !.value = IF isWatching THEN "true"
                                               ELSE "false"])
  /\ UNCHANGED <<projects, watchers, isWatching, calls>>

\* A registry where a path is the path of every project.
AnyProject(ps, p) == DOMAIN ps

\* Object.keys(this.projects).filter(path === projectDir)[0]
IdsOfPath(ps, p) == { id \in DOMAIN ps : ps[id].path = p }

\* The promise startWatchProject / stopWatchProject returns.
WatchProjectReturn(o, p, found, done, err) ==
  IF ~found
  THEN [NoRet EXCEPT !.op = o, !.path = p, !.status = "rejected",
                     !.value = "No such project."]
  ELSE IF done
  THEN [NoRet EXCEPT !.op = o, !.path = p, !.status = "fulfilled",
                     !.dirs = {WwwDir(p)}]
  ELSE [NoRet EXCEPT !.op = o, !.path = p, !.status = "rejected",
                     !.value = err]

StartWatchProject(p, seen) ==
  /\ IF IdsOfPath(projects, p) = {}
     THEN /\ ret' = Seen(seen, WatchProjectReturn("startWatchProject", p,
                                                  FALSE, FALSE, "runerr"))
          /\ UNCHANGED watchers
     ELSE \E id \in IdsOfPath(projects, p) :
          \E ran \in (IF Running(projects, watchers, id)
                      THEN {TRUE} ELSE BOOLEAN) :
            /\ watchers' = IF ran
                           THEN SetRunning(projects, watchers, {id}, TRUE)
                           ELSE watchers
            /\ ret' = Seen(seen, WatchProjectReturn("startWatchProject", p,
                                                    TRUE, ran, "runerr"))
  /\ UNCHANGED <<projects, isWatching, calls>>

StopWatchProject(p, seen) ==
  /\ IF IdsOfPath(projects, p) = {}
     THEN /\ ret' = Seen(seen, WatchProjectReturn("stopWatchProject", p,
                                                  FALSE, FALSE, "stoperr"))
          /\ UNCHANGED watchers
     ELSE \E id \in IdsOfPath(projects, p) :
          \E stopped \in (IF Running(projects, watchers, id)
                          THEN BOOLEAN ELSE {TRUE}) :
            /\ watchers' = IF stopped
                           THEN SetRunning(projects, watchers, {id}, FALSE)
                           ELSE watchers
            /\ ret' = Seen(seen, WatchProjectReturn("stopWatchProject", p,
                                                    TRUE, stopped, "stoperr"))
  /\ UNCHANGED <<projects, isWatching, calls>>

(***************************************************************************)
(* The load of the pairing keys, begun by the constructor. An exception    *)
(* thrown by one of its callbacks is caught by nobody: load.pc = "fatal".  *)
(***************************************************************************)
Alive == load.pc # "fatal"

\* The callback of fs.exists.
LoadExists ==
  /\ load.pc = "exists"
  /\ load' = [load EXCEPT !.pc = IF keysFile.kind = "absent"
                                 THEN "done" ELSE "reading"]
  /\ ret' = NoRet
  /\ UNCHANGED <<pairingKeys, keysFile, writes, clearCalled>>

\* fs.readFile reads the file, or fails to.
LoadRead ==
  /\ load.pc = "reading"
  /\ \E failed \in BOOLEAN :
       load' = [pc |-> "read", err |-> failed,
                data |-> IF failed THEN Absent ELSE keysFile]
  /\ ret' = NoRet
  /\ UNCHANGED <<pairingKeys, keysFile, writes, clearCalled>>

\* this.pairingKeys after the callback of fs.readFile was given data.
Loaded(keys, data) == Parse(data.text)

\* The callback of fs.readFile.
LoadCallback ==
  /\ load.pc = "read"
  /\ IF load.err \/ load.data.kind # "json"
     THEN \* throw new Error('Unable to open ...'), or JSON.parse throws
          /\ load' = [load EXCEPT !.pc = "fatal"]
          /\ UNCHANGED pairingKeys
     ELSE /\ pairingKeys' = Loaded(pairingKeys, load.data)
          /\ load' = [load EXCEPT !.pc = "done"]
  /\ ret' = NoRet
  /\ UNCHANGED <<keysFile, writes, clearCalled>>

(***************************************************************************)
(* clearPairing                                                            *)
(***************************************************************************)
\* this.pairingKeys after clearPairing has returned.
Cleared(keys) == NoKeys

ClearPairing ==
  /\ Alive
  /\ Len(writes) < MaxWrites
  /\ pairingKeys' = Cleared(pairingKeys)
  /\ writes' = Append(writes, [pc |-> "queued",
                               data |-> Json(Stringify(Cleared(pairingKeys)))])
  /\ clearCalled' = TRUE
  /\ ret' = NoRet
  /\ UNCHANGED <<keysFile, load>>

\* fs.writeFile writes the file, or fails and leaves it as it was or broken.
WriteFile(i) ==
  /\ Alive
  /\ writes[i].pc = "queued"
  /\ \/ /\ keysFile' = writes[i].data
        /\ writes' = [writes EXCEPT ![i].pc = "written"]
     \/ /\ keysFile' \in {keysFile, Garbage}
        /\ writes' = [writes EXCEPT ![i].pc = "failed"]
  /\ ret' = NoRet
  /\ UNCHANGED <<pairingKeys, load, clearCalled>>

\* The callback of fs.writeFile.
WriteCallback(i) ==
  /\ Alive
  /\ writes[i].pc # "queued"
  /\ writes' = Drop(writes, i)
  /\ ret' = [NoRet EXCEPT !.op = "clearPairing",
                          !.status = IF writes[i].pc = "written"
                                     THEN "fulfilled" ELSE "rejected"]
  /\ UNCHANGED <<pairingKeys, keysFile, load, clearCalled>>

(***************************************************************************)
(* startHttpServer, stopHttpServer                                         *)
(***************************************************************************)
StartHttpServer ==
  /\ httpOp = "none"
  /\ server # "bound"
  /\ server' = IF server = "none" THEN "idle" ELSE server
  /\ httpOp' = "listen"
  /\ ret' = NoRet
  /\ UNCHANGED <<loggedIn, httpServerRunning, interval, timers,
                 beaconTransmitterRunning>>
  /\ UNCHANGED netVars

\* The callback of server.listen.
ListenCallback ==
  /\ httpOp = "listen"
  /\ server' = "bound"
  /\ httpOp' = "none"
  /\ httpServerRunning' = TRUE
  /\ projectEvents' = "made"
  /\ ret' = [NoRet EXCEPT !.op = "startHttpServer", !.status = "fulfilled"]
  /\ UNCHANGED <<loggedIn, interval, timers, beaconTransmitterRunning,
                 sockets, crashed>>

\* The 'error' event of the server: the port could not be bound.
ListenError ==
  /\ httpOp = "listen"
  /\ httpOp' = "none"
  /\ ret' = [NoRet EXCEPT !.op = "startHttpServer", !.status = "rejected"]
  /\ UNCHANGED <<loggedIn, server, httpServerRunning, interval, timers,
                 beaconTransmitterRunning>>
  /\ UNCHANGED netVars

StopHttpServer ==
  /\ httpOp = "none"
  /\ IF server = "none"
     THEN \* this.server is undefined: this.server.close throws
          /\ ret' = [NoRet EXCEPT !.op = "stopHttpServer", !.status = "threw"]
          /\ UNCHANGED <<server, httpOp>>
     ELSE /\ httpOp' = IF server = "bound" THEN "close" ELSE "notRunning"
          /\ server' = "idle"
          /\ ret' = NoRet
  /\ UNCHANGED <<loggedIn, httpServerRunning, interval, timers,
                 beaconTransmitterRunning>>
  /\ UNCHANGED netVars

\* The callback of server.close: with an error when the server was not
\* listening.
CloseCallback ==
  /\ httpOp \in {"close", "notRunning"}
  /\ httpOp' = "none"
  /\ IF httpOp = "close"
     THEN /\ httpServerRunning' = FALSE
          /\ ret' = [NoRet EXCEPT !.op = "stopHttpServer",
                                  !.status = "fulfilled"]
     ELSE /\ ret' = [NoRet EXCEPT !.op = "stopHttpServer",
                                  !.status = "rejected"]
          /\ UNCHANGED httpServerRunning
  /\ UNCHANGED <<loggedIn, server, interval, timers,
                 beaconTransmitterRunning>>
  /\ UNCHANGED netVars

(***************************************************************************)
(* The beacon transmitter.                                                 *)
(***************************************************************************)
\* setInterval: the next timer.
NewTimer(ts) ==
  CHOOSE t \in 1..(Cardinality(ts) + 1) :
    t \notin ts /\ \A u \in 1..(t - 1) : u \in ts

\* The timers armed once startBeaconTransmitter has armed t.
Armed(ts, old, t) == ts \cup {t}

StartBeaconTransmitter ==
  /\ IF ~loggedIn
     THEN /\ ret' = [NoRet EXCEPT !.op = "startBeaconTransmitter",
                                  !.status = "rejected",
                                  !.value = "Must be logged in"]
          /\ UNCHANGED <<interval, timers, beaconTransmitterRunning>>
     ELSE /\ Cardinality(timers) < MaxTimers
          /\ interval' = NewTimer(timers)
          /\ timers' = Armed(timers, interval, NewTimer(timers))
          /\ beaconTransmitterRunning' = TRUE
          /\ ret' = [NoRet EXCEPT !.op = "startBeaconTransmitter",
                                  !.status = "fulfilled"]
  /\ UNCHANGED <<loggedIn, server, httpOp, httpServerRunning>>
  /\ UNCHANGED netVars

\* The body of stopBeaconTransmitter.
StopTransmitter ==
  IF interval # NoTimer
  THEN /\ timers' = timers \ {interval}
       /\ interval' = NoTimer
       /\ beaconTransmitterRunning' = FALSE
  ELSE UNCHANGED <<interval, timers, beaconTransmitterRunning>>

StopBeaconTransmitter ==
  /\ StopTransmitter
  /\ ret' = [NoRet EXCEPT !.op = "stopBeaconTransmitter",
                          !.status = "fulfilled"]
  /\ UNCHANGED <<loggedIn, server, httpOp, httpServerRunning>>
  /\ UNCHANGED netVars

\* broadcastAddresses(): the broadcast addresses of the local interfaces.
Addresses == {"10.0.0.255", "192.168.1.255"}

\* An exception that nobody catches ends the process, unless the program
\* that uses the library has taken over uncaught exceptions.
Uncaught == crashed' \in BOOLEAN

\* The sockets of a tick numbered k: one for each address, bind() under way.
NewSockets(k, addresses) ==
  { [tick |-> k, addr |-> a, pc |-> "binding"] : a \in addresses }

OpenTicks(ss) == { sock.tick : sock \in ss }

NewTick(ss) ==
  CHOOSE k \in 1..(Cardinality(OpenTicks(ss)) + 1) :
    k \notin OpenTicks(ss) /\ \A j \in 1..(k - 1) : j \in OpenTicks(ss)

\* _sendBeacon, called by timer t.
SendBeacon(t) ==
  /\ t \in timers
  /\ IF server # "bound"
     THEN \* server.address().port throws; the transmitter is stopped, and
          \* then _getServerInfo throws out of the timer callback
          /\ StopTransmitter
          /\ ret' = [NoRet EXCEPT !.op = "sendBeacon", !.status = "threw"]
          /\ Uncaught
          /\ UNCHANGED sockets
     ELSE /\ Cardinality(OpenTicks(sockets)) < MaxOpenTicks
          /\ sockets' = sockets \cup NewSockets(NewTick(sockets), Addresses)
          /\ ret' = [NoRet EXCEPT !.op = "sendBeacon", !.status = "sent",
                                  !.dirs = Addresses]
          /\ UNCHANGED <<interval, timers, beaconTransmitterRunning, crashed>>
  /\ UNCHANGED <<loggedIn, server, httpOp, httpServerRunning, projectEvents>>

\* What a step of a socket reports.
SocketReturn(sock, what) ==
  [NoRet EXCEPT !.op = "socket", !.value = sock.addr, !.status = what]

\* The 'listening' handler of a socket: setBroadcast and send, which may
\* throw; the exception is caught and logged, and the socket is left open
\* with no callback to come.
SocketListening(sock) ==
  /\ sock \in sockets
  /\ sock.pc = "binding"
  /\ \E threw \in BOOLEAN :
       IF threw
       THEN /\ sockets' = (sockets \ {sock}) \cup {[sock EXCEPT !.pc = "open"]}
            /\ ret' = SocketReturn(sock, "caught")
       ELSE /\ sockets' = (sockets \ {sock}) \cup {[sock EXCEPT !.pc = "sending"]}
            /\ ret' = SocketReturn(sock, "attempted")
  /\ UNCHANGED <<beaconVars, projectEvents, crashed>>

\* The callback of client.send: an error is logged; the socket is closed.
SendCallback(sock) ==
  /\ sock \in sockets
  /\ sock.pc = "sending"
  /\ sockets' = sockets \ {sock}
  /\ \E error \in BOOLEAN :
       ret' = SocketReturn(sock, IF error THEN "warned" ELSE "closed")
  /\ UNCHANGED <<beaconVars, projectEvents, crashed>>

\* The 'error' event of a socket whose bind() failed: the socket has no
\* 'error' listener, so the event is thrown as an exception.
SocketError(sock) ==
  /\ sock \in sockets
  /\ sock.pc = "binding"
  /\ sockets' = sockets \ {sock}
  /\ ret' = SocketReturn(sock, "error")
  /\ Uncaught
  /\ UNCHANGED <<beaconVars, projectEvents>>

(***************************************************************************)
(* getProjectFiles                                                         *)
(***************************************************************************)
\* The names of files and directories in a project.
FileParts == {"www", ".git", "a.js", "n"}

PartChars(part) ==
  CASE part = "www" -> <<"w", "w", "w">>
    [] part = ".git" -> <<".", "g">>
    [] part = "a.js" -> <<"a", ".", "j">>
    [] OTHER -> <<"n">>

\* The files of a project: a file with up to n directories above it.
RECURSIVE FilesUpTo(_)
FilesUpTo(n) ==
  IF n = 0 THEN { <<part>> : part \in FileParts }
  ELSE LET shorter == FilesUpTo(n - 1)
       IN shorter \cup
          { <<part>> \o f : part \in FileParts,
                            f \in { g \in shorter : Len(g) = n } }

ProjectFiles == FilesUpTo(MaxDepth)

\* What getLocalProjectFiles may enumerate: here, up to two files.
Listings == { {f, g} : f \in ProjectFiles, g \in ProjectFiles } \cup {{}}

\* The key of a file in the object getLocalProjectFiles gives: its path
\* from the project directory, each part after a "/".
RECURSIVE FileName(_)
FileName(f) ==
  IF f = <<>> THEN <<>>
  ELSE <<"/">> \o PartChars(Head(f)) \o FileName(Tail(f))

\* A file filter that lets hidden files through.
NeverHidden(fn) == FALSE

\* fn.indexOf('/.') >= 0
Hidden(fn) == \E i \in 1..(Len(fn) - 1) : fn[i] = "/" /\ fn[i + 1] = "."

\* /^\/(www\/|[^/]*$)/.test(fn)
InWwwOrTop(fn) ==
  /\ Len(fn) >= 1
  /\ fn[1] = "/"
  /\ \/ Len(fn) >= 5 /\ SubSeq(fn, 2, 5) = <<"w", "w", "w", "/">>
     \/ \A i \in 2..Len(fn) : fn[i] # "/"

FileFilter(fn) == ~Hidden(fn) /\ InWwwOrTop(fn)

GetProjectFiles(id) ==
  /\ rd.pc = "none"
  /\ IF id \in DOMAIN projects
     THEN \* getLocalProjectFiles(this.projects[projectId].path)
          /\ rd' = [NoRead EXCEPT !.pc = "files", !.id = id]
          /\ ret' = NoRet
     ELSE /\ rd' = NoRead
          /\ ret' = [NoRet EXCEPT !.op = "getProjectFiles", !.path = id,
                                  !.status = "rejected",
                                  !.value = "No project"]

\* The success callback of getLocalProjectFiles, given files.
GetFilesResolved ==
  /\ rd.pc = "files"
  /\ rd' = NoRead
  /\ \E files \in Listings :
       ret' = [NoRet EXCEPT
                 !.op = "getProjectFiles", !.path = rd.id,
                 !.status = "fulfilled", !.given = files,
                 !.dirs = { fn \in { FileName(f) : f \in files } :
                              FileFilter(fn) }]

\* The error callback of getLocalProjectFiles.
GetFilesFailed ==
  /\ rd.pc = "files"
  /\ rd' = NoRead
  /\ ret' = [NoRet EXCEPT !.op = "getProjectFiles", !.path = rd.id,
                          !.status = "rejected", !.value = "error"]

(***************************************************************************)
(* The onchange callback addProject gave to a watcher.                     *)
(***************************************************************************)
\* The files under a www directory whose change a watcher reports.
ChangedFiles == {"index.html", "js/app.js"}

\* Watcher w, running, reports a change of file.
FileChange(w, file) ==
  /\ w \in DOMAIN watchers
  /\ watchers[w].running
  /\ IF projectEvents = "none"
     THEN \* this.projectEvents is undefined: sendFileEvent throws
          /\ ret' = [NoRet EXCEPT !.op = "fileChange", !.path = file,
                                  !.status = "threw"]
          /\ Uncaught
     ELSE /\ ret' = [NoRet EXCEPT !.op = "fileChange", !.path = file,
                                  !.status = "sent",
                                  !.value = watchers[w].cb]
          /\ UNCHANGED crashed
  /\ UNCHANGED <<regVars, beaconVars, projectEvents, sockets>>

(***************************************************************************)
(* Paths as strings: sequences of characters.                              *)
(***************************************************************************)
PathAlphabet == {"/", ".", "a", "b"}

RECURSIVE StringsUpTo(_)
StringsUpTo(n) ==
  IF n = 0 THEN {<<>>}
  ELSE LET shorter == StringsUpTo(n - 1)
       IN shorter \cup
          { Append(t, c) : t \in { u \in shorter : Len(u) = n - 1 },
                           c \in PathAlphabet }

\* The file paths a client may send.
FilePaths == StringsUpTo(MaxPathLen)

\* The characters of a project directory.
PathChars(p) ==
  CASE p = "/a" -> <<"/", "a">>
    [] p = "/ab" -> <<"/", "a", "b">>
    [] OTHER -> <<"/", "n">>

ProjectIds == { ProjectIdOf(p) : p \in Paths }

\* The parts of a path between its separators.
RECURSIVE Split(_)
Split(s) ==
  IF \A i \in 1..Len(s) : s[i] # "/" THEN <<s>>
  ELSE LET k == CHOOSE i \in 1..Len(s) :
                  s[i] = "/" /\ \A j \in 1..(i - 1) : s[j] # "/"
       IN <<SubSeq(s, 1, k - 1)>> \o Split(SubSeq(s, k + 1, Len(s)))

\* The directories an absolute path walks through: "" and "." stay where
\* they are, ".." goes up, and not above the root.
RECURSIVE Walk(_, _)
Walk(parts, at) ==
  IF parts = <<>> THEN at
  ELSE LET part == Head(parts)
       IN Walk(Tail(parts),
               IF part = <<>> \/ part = <<".">> THEN at
               ELSE IF part = <<".", ".">>
                    THEN (IF at = <<>> THEN at ELSE SubSeq(at, 1, Len(at) - 1))
                    ELSE Append(at, part))

RECURSIVE Render(_)
Render(dirs) ==
  IF dirs = <<>> THEN <<>> ELSE <<"/">> \o Head(dirs) \o Render(Tail(dirs))

\* path.resolve of an absolute path.
PathResolve(s) ==
  LET dirs == Walk(Split(s), <<>>)
  IN IF dirs = <<>> THEN <<"/">> ELSE Render(dirs)

\* path.join(a, b), a absolute: normalized, and a trailing separator kept.
PathJoin(a, b) ==
  LET joined == IF b = <<>> THEN a ELSE a \o <<"/">> \o b
      r == PathResolve(joined)
  IN IF joined[Len(joined)] = "/" /\ r # <<"/">> THEN r \o <<"/">> ELSE r

\* filePath.charAt(0) === '/' ? filePath.substr(1) : filePath
StripSlash(f) == IF Len(f) > 0 /\ f[1] = "/" THEN Tail(f) ELSE f

\* hay.indexOf(needle) === 0
StartsWith(hay, needle) ==
  Len(needle) <= Len(hay) /\ SubSeq(hay, 1, Len(needle)) = needle

\* The defence against path traversal: whether the file may be read.
GuardPasses(projectPath, filePath) ==
  StartsWith(PathResolve(filePath), PathResolve(projectPath))

(***************************************************************************)
(* readProjectFile                                                         *)
(***************************************************************************)
ReadProjectFile(id, f) ==
  /\ rd.pc = "none"
  /\ IF ~(id \in DOMAIN projects)
     THEN /\ rd' = NoRead
          /\ ret' = [NoRet EXCEPT !.op = "readProjectFile",
                                  !.status = "rejected",
                                  !.value = "No project"]
     ELSE LET projectPath == PathChars(projects[id].path)
              filePath == PathJoin(projectPath, StripSlash(f))
          IN IF ~GuardPasses(projectPath, filePath)
             THEN /\ rd' = NoRead
                  /\ ret' = [NoRet EXCEPT !.op = "readProjectFile",
                                          !.status = "rejected",
                                          !.value = "outside"]
             ELSE \* fs.exists(filePath, ...)
                  /\ rd' = [pc |-> "exists", id |-> id, arg |-> f,
                            file |-> filePath]
                  /\ ret' = NoRet

\* The callback of fs.exists, with fs.lstatSync.
FsExists ==
  /\ rd.pc = "exists"
  /\ \E found \in {"nothing", "directory", "file"} :
       IF found = "file"
       THEN /\ rd' = [rd EXCEPT !.pc = "readFile"]
            /\ ret' = NoRet
       ELSE /\ rd' = NoRead
            /\ ret' = [NoRet EXCEPT !.op = "readProjectFile",
                                    !.status = "rejected",
                                    !.value = found]

\* The callback of fs.readFile.
ReadFileCallback ==
  /\ rd.pc = "readFile"
  /\ rd' = NoRead
  /\ \E failed \in BOOLEAN :
       ret' = [NoRet EXCEPT !.op = "readProjectFile",
                            !.status = IF failed THEN "rejected"
                                       ELSE "fulfilled",
                            !.value = IF failed THEN "error" ELSE "data"]

(***************************************************************************)
(* The registry and its callers: any number of callers, who between them   *)
(* hold at most MaxCalls unfinished calls. ret records the promises that   *)
(* are settled.                                                            *)
(***************************************************************************)
Callbacks ==
  \/ \E rec \in DOMAIN calls : \E i \in 0..Len(rec.subs) :
       AddProjectResolved(rec, i)
  \/ \E rec \in DOMAIN calls : \E i \in 0..Len(rec.subs) :
       AddProjectIdFailed(rec, i)
  \/ \E rec \in DOMAIN calls : \E i \in 0..Len(rec.subs) :
       RemoveProjectResolved(rec, i)
  \/ \E rec \in DOMAIN calls : \E i \in 0..Len(rec.subs) :
       RemoveProjectIdFailed(rec, i)
  \/ \E rec \in DOMAIN calls : SetProjectsResolved(rec)
  \/ \E rec \in DOMAIN calls : SetProjectsIdFailed(rec)

NextRegistry ==
  \/ \E p \in Paths : CallAddProject(p, MaxCalls)
  \/ \E p \in Paths : CallRemoveProject(p, MaxCalls)
  \/ \E l \in PathLists : CallSetProjects(l, MaxCalls)
  \/ Callbacks
  \/ StartWatch(FALSE)
  \/ StopWatch(FALSE)
  \/ \E p \in Paths : StartWatchProject(p, FALSE)
  \/ \E p \in Paths : StopWatchProject(p, FALSE)

Next == NextRegistry /\ UNCHANGED <<pairVars, beaconVars, rd, netVars>>

Spec == Init /\ [][Next]_vars

(***************************************************************************)
(* One caller, who makes a call when the one before has finished; ret      *)
(* also records what the watch operations return.                          *)
(***************************************************************************)
NextOneCaller ==
  \/ \E p \in Paths : CallAddProject(p, 1)
  \/ \E p \in Paths : CallRemoveProject(p, 1)
  \/ \E l \in PathLists : CallSetProjects(l, 1)
  \/ Callbacks
  \/ StartWatch(TRUE)
  \/ StopWatch(TRUE)
  \/ IsWatching(TRUE)
  \/ \E p \in Paths : StartWatchProject(p, TRUE)
  \/ \E p \in Paths : StopWatchProject(p, TRUE)

NextWatch == NextOneCaller /\ UNCHANGED <<pairVars, beaconVars, rd, netVars>>

SpecWatch == Init /\ [][NextWatch]_vars

(***************************************************************************)
(* The pairing keys: the load begun by the constructor, and clearPairing   *)
(* called at any moment.                                                   *)
(***************************************************************************)
InitPairingKeys ==
  /\ InitRegistry
  /\ \E onDisk \in FilesOnDisk : InitPairing(onDisk)
  /\ InitBeacon(FALSE)
  /\ rd = NoRead
  /\ ret = NoRet

NextPairing ==
  /\ \/ LoadExists
     \/ LoadRead
     \/ LoadCallback
     \/ ClearPairing
     \/ \E i \in 1..Len(writes) : WriteFile(i)
     \/ \E i \in 1..Len(writes) : WriteCallback(i)
  /\ UNCHANGED <<regVars, beaconVars, rd, netVars>>

SpecPairing == InitPairingKeys /\ [][NextPairing]_vars

(***************************************************************************)
(* The HTTP server and the beacon transmitter.                             *)
(***************************************************************************)
InitTransmitter ==
  /\ InitRegistry
  /\ InitPairing(Absent)
  /\ \E logged \in BOOLEAN : InitBeacon(logged)
  /\ rd = NoRead
  /\ ret = NoRet

NextBeacon ==
  /\ \/ StartHttpServer
     \/ ListenCallback
     \/ ListenError
     \/ StopHttpServer
     \/ CloseCallback
     \/ StartBeaconTransmitter
     \/ StopBeaconTransmitter
     \/ \E t \in timers : SendBeacon(t)
     \/ \E sock \in sockets : SocketListening(sock)
     \/ \E sock \in sockets : SendCallback(sock)
     \/ \E sock \in sockets : SocketError(sock)
  /\ ~crashed
  /\ UNCHANGED <<regVars, pairVars, rd>>

SpecBeacon == InitTransmitter /\ [][NextBeacon]_vars

\* The event loop runs every callback that is due: a socket that is binding
\* gets its 'listening' or 'error' event, a send its callback.
SocketStep ==
  /\ \E sock \in sockets :
       SocketListening(sock) \/ SendCallback(sock) \/ SocketError(sock)
  /\ ~crashed
  /\ UNCHANGED <<regVars, pairVars, rd>>

SpecBeaconLive == SpecBeacon /\ WF_vars(SocketStep)

(***************************************************************************)
(* readProjectFile, asked for any path of any project, the projects        *)
(* "/a" and "/ab" having been added.                                       *)
(***************************************************************************)
Added(paths) ==
  [id \in { ProjectIdOf(p) : p \in paths } |->
     LET p == CHOOSE q \in paths : ProjectIdOf(q) = id
     IN NewEntry(p, <<id, 1>>)]

InitFiles ==
  /\ projects = Added(WithWww)
  /\ watchers = [w \in { <<ProjectIdOf(p), 1>> : p \in WithWww } |->
                   [running |-> FALSE, cb |-> w[1]]]
  /\ isWatching = FALSE
  /\ calls = NoCalls
  /\ InitPairing(Absent)
  /\ InitBeacon(FALSE)
  /\ rd = NoRead
  /\ ret = NoRet

NextFiles ==
  /\ \/ \E id \in ProjectIds : \E f \in FilePaths : ReadProjectFile(id, f)
     \/ FsExists
     \/ ReadFileCallback
  /\ UNCHANGED <<regVars, pairVars, beaconVars, netVars>>

SpecFiles == InitFiles /\ [][NextFiles]_vars

(***************************************************************************)
(* Listing the files of the projects.                                      *)
(***************************************************************************)
NextTree ==
  /\ \/ \E id \in ProjectIds : GetProjectFiles(id)
     \/ GetFilesResolved
     \/ GetFilesFailed
  /\ UNCHANGED <<regVars, pairVars, beaconVars, netVars>>

SpecTree == InitFiles /\ [][NextTree]_vars

(***************************************************************************)
(* The registry with one caller, the HTTP server, and the watchers         *)
(* reporting changes.                                                      *)
(***************************************************************************)
NextEvents ==
  /\ ~crashed
  /\ \/ NextOneCaller /\ UNCHANGED <<beaconVars, netVars>>
     \/ /\ \/ StartHttpServer
           \/ ListenCallback
           \/ ListenError
        /\ UNCHANGED regVars
     \/ \E w \in DOMAIN watchers : \E file \in ChangedFiles : FileChange(w, file)
  /\ UNCHANGED <<pairVars, rd>>

SpecEvents == Init /\ [][NextEvents]_vars

(***************************************************************************)
(* Properties.                                                             *)
(***************************************************************************)
\* The directories of an absolute path, canonicalized.
Canonical(s) == Walk(Split(s), <<>>)

\* file is root itself or a descendant of root in the directory tree.
Within(file, root) ==
  /\ Len(Canonical(root)) <= Len(Canonical(file))
  /\ SubSeq(Canonical(file), 1, Len(Canonical(root))) = Canonical(root)

\* The project directory of the readProjectFile call under way.
RootOfRead == PathChars(projects[rd.id].path)

\* C1: whenever readProjectFile has let a path through its traversal guard
\* and consults the file system, the canonicalized join of the project root
\* and the path is the root itself or a descendant of the root.
GuardAcceptsOnlyWithinRoot ==
  rd.pc # "none" => Within(RootOfRead \o <<"/">> \o rd.arg, RootOfRead)

\* C2: when the callback of removeProject finds that the id of its path is
\* not in the registry, the call is rejected with the UnknownProject error
\* and projects and watchers are as they were.
UnknownProjectRejected ==
  [][(/\ ret'.op = "remove"
      /\ ret'.value # "iderr"
      /\ ~(ProjectIdOf(ret'.path) \in DOMAIN projects))
     => (/\ ret'.status = "rejected"
         /\ ret'.value = "UnknownProject"
         /\ projects' = projects
         /\ watchers' = watchers)]_vars

\* C3: once clearPairing has been called the pairing keys in memory are
\* empty, whatever becomes of the write and whenever the load that the
\* constructor began runs its callbacks.
ClearedKeysStayEmpty == clearCalled => pairingKeys = NoKeys

\* C4: while the transmitter is stopped (no timer is held in _interval, as
\* at construction and after every stopBeaconTransmitter), no broadcast
\* tick fires.
NoTickWhileStopped ==
  [][interval = NoTimer => ret'.op # "sendBeacon"]_vars

\* C5: an addProject that is fulfilled returns the id of its path and
\* leaves the project registered under that id with that path; if the
\* project was registered already, whether by an earlier call or by one in
\* flight at the same time, projects and watchers are left as they were: no
\* second entry, no second watcher, the first one not replaced.
AddProjectIdempotent ==
  [][(ret'.op = "add" /\ ret'.status = "fulfilled")
     => LET id == ProjectIdOf(ret'.path)
        IN /\ ret'.value = id
           /\ id \in DOMAIN projects'
           /\ projects'[id].path = ret'.path
           /\ Cardinality({ k \in DOMAIN projects' :
                              projects'[k].path = ret'.path }) = 1
           /\ id \in DOMAIN projects
                => projects' = projects /\ watchers' = watchers]_vars

\* A second addProject of a registered project has been fulfilled.
AddedTwice ==
  ret.op = "add" /\ ret.status = "fulfilled" /\ ret.found

\* C6: an addProject of a path without a www directory is rejected, an
\* addProject whose identity resolution fails is rejected, and a rejected
\* addProject leaves projects and watchers as they were; no project is
\* ever registered with a path that has no www directory.
FailedAddLeavesNoTrace ==
  [][(ret'.op = "add")
     => (/\ ret'.path \notin WithWww => ret'.status = "rejected"
         /\ ret'.value = "iderr" => ret'.status = "rejected"
         /\ ret'.status = "rejected"
              => projects' = projects /\ watchers' = watchers
         /\ \A id \in DOMAIN projects' : projects'[id].path \in WithWww)]_vars

\* An addProject of a path without www has been rejected after another
\* project had been registered.
AddRejected ==
  /\ ret.op = "add"
  /\ ret.status = "rejected"
  /\ ret.value = "nowww"
  /\ projects # Empty

\* C7: when removeProject finds its project registered, either stop()
\* throws, the call is rejected with that error and the entry is still
\* there with its path and its watcher as they were, or the entry is
\* removed and the call is fulfilled with the project id.
RemoveKeepsEntryOnStopFailure ==
  [][(/\ ret'.op = "remove"
      /\ ret'.value # "iderr"
      /\ ProjectIdOf(ret'.path) \in DOMAIN projects)
     => LET id == ProjectIdOf(ret'.path)
            w == projects[id].fileWatcher
        IN \/ /\ ret'.status = "rejected"
              /\ ret'.value = "stoperr"
              /\ projects' = projects
              /\ w \in DOMAIN watchers'
              /\ watchers'[w] = watchers[w]
           \/ /\ ret'.status = "fulfilled"
              /\ ret'.value = id
              /\ projects' = Without(projects, id)]_vars

\* A removeProject of a registered project has been rejected because its
\* watcher could not be stopped.
RemoveRejected ==
  ret.op = "remove" /\ ret.status = "rejected" /\ ret.value = "stoperr"

\* C8: when a setProjects call that was alone in flight fails, its batch
\* has been attempted: every listed path with a www directory whose own
\* identity resolution did not fail is registered.
SetProjectsAttemptsWholeBatch ==
  [][(ret'.op = "set" /\ ret'.status = "rejected" /\ ret'.alone)
     => \A rec \in DOMAIN calls :
          \A p \in Range(rec.list) \ ret'.failed :
            HasWww(p) => ProjectIdOf(p) \in DOMAIN projects']_vars

\* The paths of the registered projects.
RegisteredPaths(ps) == { ps[id].path : id \in DOMAIN ps }

\* The setProjects call that was alone in flight, if there is one.
AloneSet == { rec \in DOMAIN calls : rec.op = "set" /\ rec.alone }

\* C9: when a setProjects call that was alone in flight is fulfilled, the
\* paths registered are those of its list; and no callback of such a call
\* touches the entry, the watcher or the watch state of a registered
\* project whose path is in the list.
SetProjectsReconciles ==
  [][\A rec \in AloneSet :
       /\ ret'.all = "fulfilled" => RegisteredPaths(projects') = Range(rec.list)
       /\ ret'.op # "none"
            => \A id \in DOMAIN projects :
                 projects[id].path \in Range(rec.list)
                   => /\ id \in DOMAIN projects'
                      /\ projects'[id] = projects[id]
                      /\ watchers'[projects[id].fileWatcher]
                           = watchers[projects[id].fileWatcher]]_vars

\* A setProjects call that was alone in flight has been fulfilled by the
\* removal of a project, another project staying registered.
SetFulfilledAfterRemoval ==
  /\ ret.all = "fulfilled"
  /\ ret.alone
  /\ ret.op = "remove"
  /\ projects # Empty

\* C10: startWatch is always fulfilled; every watcher that was idle either
\* runs afterwards or had its failure logged; and the value is exactly the
\* set of www directories of the watchers that were idle and now run.
StartWatchAlwaysResolves ==
  [][(ret'.op = "startWatch")
     => (/\ ret'.status = "fulfilled"
         /\ \A id \in IdleIds(projects, watchers) :
              \/ Running(projects', watchers', id)
              \/ WwwDir(projects[id].path) \in ret'.logged
         /\ ret'.dirs =
              { WwwDir(projects[id].path) :
                  id \in { k \in IdleIds(projects, watchers) :
                             Running(projects', watchers', k) } })]_vars

\* startWatch has returned after starting one watcher and failing to start
\* another.
StartWatchSkippedOne ==
  ret.op = "startWatch" /\ ret.dirs # {} /\ ret.logged # {}

\* The projects whose watcher runs after the step as it did before.
StillRunning ==
  { id \in RunningIds(projects, watchers) : Running(projects', watchers', id) }

\* C11: stopWatch stops every running watcher whose stop() does not throw;
\* when none throws it is fulfilled with the paths of the projects it
\* stopped, and when one throws it is rejected with an error that reports
\* the path of a project whose watcher could not be stopped.
StopWatchReportsFailedPath ==
  [][(ret'.op = "stopWatch")
     => IF StillRunning = {}
        THEN /\ ret'.status = "fulfilled"
             /\ ret'.dirs = { projects[id].path :
                                id \in RunningIds(projects, watchers) }
        ELSE /\ ret'.status = "rejected"
             /\ ret'.value \in { projects[id].path : id \in StillRunning }]_vars

IsWatchingWhenAllRun ==
  (/\ ret.op = "isWatching"
   /\ projects # Empty
   /\ \A id \in DOMAIN projects : Running(projects, watchers, id))
    => ret.value = "true"

\* The registered projects whose path is p.
ProjectsAt(p) == { id \in DOMAIN projects : projects[id].path = p }

\* The watch state of every project not at path p is as it was.
OthersUntouched(p) ==
  \A id \in DOMAIN projects \ ProjectsAt(p) :
    /\ id \in DOMAIN projects'
    /\ Running(projects', watchers', id) = Running(projects, watchers, id)

\* C18 as stated: startWatchProject and stopWatchProject are rejected with
\* "No such project." and change no watcher when no registered project has
\* the path; for a registered path they leave its watcher in the target
\* state, and that of every other project as it was.
WatchProjectReachesTarget ==
  [][(ret'.op \in {"startWatchProject", "stopWatchProject"})
     => IF ProjectsAt(ret'.path) = {}
        THEN /\ ret'.status = "rejected"
             /\ ret'.value = "No such project."
             /\ watchers' = watchers
        ELSE /\ \A id \in ProjectsAt(ret'.path) :
                  Running(projects', watchers', id)
                    = (ret'.op = "startWatchProject")
             /\ OthersUntouched(ret'.path)]_vars

\* C18: startWatchProject and stopWatchProject are rejected with "No such
\* project." and change no watcher when no registered project has the path.
\* For a registered path: if its watcher is in the target state already the
\* call is fulfilled and nothing changes (run/stop is not called); if not,
\* either the call is fulfilled and the watcher is in the target state, or
\* run/stop threw, the call is rejected with that error and the watcher is
\* as it was. The watch state of every other project is as it was.
WatchProjectTargetOrError ==
  [][(ret'.op \in {"startWatchProject", "stopWatchProject"})
     => LET target == (ret'.op = "startWatchProject")
        IN IF ProjectsAt(ret'.path) = {}
           THEN /\ ret'.status = "rejected"
                /\ ret'.value = "No such project."
                /\ watchers' = watchers
           ELSE /\ \A id \in ProjectsAt(ret'.path) :
                     IF Running(projects, watchers, id) = target
                     THEN ret'.status = "fulfilled" /\ watchers' = watchers
                     ELSE \/ /\ ret'.status = "fulfilled"
                             /\ Running(projects', watchers', id) = target
                          \/ /\ ret'.status = "rejected"
                             /\ ret'.value \in {"runerr", "stoperr"}
                             /\ watchers' = watchers
                /\ OthersUntouched(ret'.path)]_vars

\* stopWatchProject has stopped the watcher of one project while that of
\* another project runs on.
StoppedOneOfTwo ==
  /\ ret.op = "stopWatchProject"
  /\ ret.status = "fulfilled"
  /\ \E id \in DOMAIN projects :
       projects[id].path # ret.path /\ Running(projects, watchers, id)
  /\ \E id \in DOMAIN projects :
       projects[id].path = ret.path /\ ~Running(projects, watchers, id)

\* C16: when the write of a clearPairing has succeeded and its promise is
\* fulfilled, the pairing keys in memory are empty and are the keys that
\* write has put in the file.
ClearedKeysMatchFile ==
  [][(ret'.op = "clearPairing" /\ ret'.status = "fulfilled")
     => (/\ pairingKeys' = NoKeys
         /\ \E i \in 1..Len(writes) :
              /\ writes[i].pc = "written"
              /\ Parse(writes[i].data.text) = pairingKeys')]_vars

\* C20: a callback of addProject or removeProject that is the last step of
\* its call settles the promise of the call, and leaves the promise of the
\* setProjects call it belongs to settled or with a call still in flight
\* that will settle it.
RegistryCallsSettle ==
  [][(ret'.op \in {"add", "remove"})
     => (/\ ret'.status \in {"fulfilled", "rejected"}
         /\ ret'.all # "never")]_vars

\* C14: every change that the running watcher of a registered project
\* reports is forwarded to projectEvents, tagged with the id of a
\* registered project whose watcher is running, the HTTP server started or
\* not.
FileChangesAreForwarded ==
  [][(ret'.op = "fileChange")
     => (/\ ret'.status = "sent"
         /\ ret'.value \in DOMAIN projects
         /\ Running(projects, watchers, ret'.value))]_vars

\* C15: the failure of the socket of one address does not prevent the send
\* of another address: when the 'error' event of a socket has ended the
\* process, no socket of the beacon was still waiting to send.
SocketFailuresAreIsolated ==
  (ret.op = "socket" /\ ret.status = "error" /\ crashed)
    => \A sock \in sockets : sock.pc # "binding"

\* No part of file f begins with a dot, and f is under the www directory of
\* the project or directly in the project directory.
Wanted(f) ==
  /\ \A i \in 1..Len(f) : Head(PartChars(f[i])) # "."
  /\ Len(f) = 1 \/ f[1] = "www"

RunningWatchersAreRegistered ==
  \A w \in DOMAIN watchers :
    watchers[w].running
      => \E id \in DOMAIN projects : projects[id].fileWatcher = w

\* A project that was registered has been removed while the watcher of
\* another project is running.
RemovedBesideRunningWatcher ==
  /\ ret.op = "remove"
  /\ ret.status = "fulfilled"
  /\ ret.found
  /\ \E id \in DOMAIN projects : Running(projects, watchers, id)

\* The socket that tick k opened for address a has not been closed.
IsOpen(k, a) == \E sock \in sockets : sock.tick = k /\ sock.addr = a

\* C22: every socket opened by a broadcast tick is eventually closed,
\* whether its send completes, its callback reports an error, or
\* setBroadcast or send throws (unless the process has ended before).
SocketsAreClosed ==
  \A k \in 1..MaxOpenTicks : \A a \in Addresses :
    IsOpen(k, a) ~> (~IsOpen(k, a) \/ crashed)

\* C23: a broadcast tick that runs while no listener is bound stops the
\* transmitter, opens no socket, and returns without throwing out of the
\* timer callback.
TickWithoutListenerStopsQuietly ==
  [][(ret'.op = "sendBeacon" /\ server # "bound")
     => (/\ interval' = NoTimer
         /\ ~beaconTransmitterRunning'
         /\ sockets' = sockets
         /\ ret'.status # "threw")]_vars

HttpFlagFollowsListener ==
  [][/\ httpServerRunning' => server' = "bound"
     /\ (ret'.op = "startHttpServer" /\ ret'.status = "fulfilled")
          => httpServerRunning'
     /\ (ret'.op = "stopHttpServer" /\ ret'.status = "fulfilled")
          => ~httpServerRunning'
     /\ (/\ ret'.op \in {"startHttpServer", "stopHttpServer"}
         /\ ret'.status \in {"rejected", "threw"})
          => httpServerRunning' = httpServerRunning]_vars

=============================================================================
